---- MODULE Spec2Model ----
(***************************************************************************)
(* Model of the sprint report scripts of github-api-script:                *)
(*   src/2025/code-review/review.py  (code-review comment report)          *)
(*   src/2025/pull-request/pr.py     (release pull-request report)         *)
(* The model covers the search paginator, the batch processor with its     *)
(* progress file, and the final-report step, as one state machine per run  *)
(* of main(); a run may be interrupted and the script run again.           *)
(*                                                                         *)
(* Python strings that the code inspects (lower(), startswith()) are       *)
(* sequences of one-character strings.  JSON values returned by the API   *)
(* are tagged records [t |-> "null" | "dict" | "list" | "str", v |-> ...]  *)
(* so that isinstance() and truthiness are computed as Python does.        *)
(***************************************************************************)
EXTENDS Integers, Sequences, FiniteSets, TLC

VARIABLES
    args,           \* parsed command line + environment of this run
    repo,           \* server side: the items the search query matches
    now,            \* wall clock, in the granularity of strftime('%Y%m%d_%H%M%S')
    fs,             \* progress files on disk, by the timestamp in their name
    pc,             \* position of the run
    page,           \* paginator: page index of the next request
    all_items,      \* paginator: accumulated items
    search_data,    \* paginator: last response
    fetches,        \* log: every page request issued in this run and its response
    timeline,       \* log: the page requests and inter-page delays of this run
    items,          \* main: items returned by the paginator
    total_count,    \* main: total returned by the paginator
    progress_file,  \* batch processor: timestamp of the progress file name
    processed_prs,  \* batch processor: items consumed so far
    start_index,    \* batch processor: resume offset
    results,        \* batch processor: all_comments (review.py) / release_prs (pr.py)
    i,              \* batch processor: 0-based start of the current batch
    j,              \* batch processor: 0-based offset inside the current batch
    batch_results,  \* batch processor: batch_comments / batch_release_prs
    filtered,       \* log: 0-based indices of the items passed through the filter
    accepted,       \* log: 0-based indices of the items that passed every predicate
    loaded,         \* log: the progress document loaded at the start, or JNull
    report_rows,    \* final report: rows written to the CSV, <<>> if none written
    exit_code,      \* -1 while running, else what main returned
    calls,          \* log: kind of every github_request issued in this run
    saves,          \* log: every document save_progress wrote in this run
    outputs         \* report files created in this run

vars == <<args, repo, now, fs, pc, page, all_items, search_data, fetches, timeline, items,
          total_count, progress_file, processed_prs, start_index, results, i, j,
          batch_results, filtered, accepted, loaded, report_rows, exit_code,
          calls, saves, outputs>>

pagVars  == <<page, all_items, search_data, fetches, timeline>>
mainVars == <<items, total_count, exit_code, report_rows, outputs>>
procVars == <<progress_file, processed_prs, start_index, results, i, j,
              batch_results, filtered, accepted, loaded, saves>>
envVars  == <<args, repo, now>>

-----------------------------------------------------------------------------
(* Bounds of the model *)

MaxItems == 2        \* most items the server holds in a full run
MaxBatch == 2        \* largest --batch-size tried
MaxClock == 2        \* distinct progress-file timestamps
MaxBigPages == 2     \* most full pages the server of the paginator runs holds
MaxFilterItems == 1  \* most items in a run of the batch processor on its own
MaxSortLen == 3      \* most records handed to the report step on its own
MaxTail == 1         \* items beyond the first full page in a two-page run

(* Program constants *)

per_page == 100

-----------------------------------------------------------------------------
(* JSON values and Python truthiness *)

JNull == [t |-> "null"]
JDict(d) == [t |-> "dict", v |-> d]
JList(s) == [t |-> "list", v |-> s]
JStr(s) == [t |-> "str", v |-> s]

IsDict(x) == x.t = "dict"
IsList(x) == x.t = "list"
IsStr(x) == x.t = "str"

\* bool(x) of Python: None, {}, [] and '' are false
Truthy(x) ==
    CASE x.t = "null" -> FALSE
      [] x.t = "dict" -> DOMAIN x.v # {}
      [] x.t = "list" -> Len(x.v) > 0
      [] x.t = "str"  -> Len(x.v) > 0
      [] OTHER -> TRUE

\* d.get(k, default) on a dict value
Get(x, k, default) == IF k \in DOMAIN x.v THEN x.v[k] ELSE default

EmptyDict == JDict(<<>>)

-----------------------------------------------------------------------------
(* Python str.lower() and str.startswith() on character sequences *)

Upper == <<"A","B","C","D","E","F","G","H","I","J","K","L","M",
           "N","O","P","Q","R","S","T","U","V","W","X","Y","Z">>
LowerOf == <<"a","b","c","d","e","f","g","h","i","j","k","l","m",
             "n","o","p","q","r","s","t","u","v","w","x","y","z">>

LowerChar(c) ==
    IF \E k \in 1..26 : Upper[k] = c
    THEN LowerOf[CHOOSE k \in 1..26 : Upper[k] = c]
    ELSE c

Lower(s) == [k \in 1..Len(s) |-> LowerChar(s[k])]

StartsWith(s, p) == Len(s) >= Len(p) /\ SubSeq(s, 1, Len(p)) = p

-----------------------------------------------------------------------------
(* The search paginator: get_filtered_prs (review.py), get_all_prs_fast     *)
(* (pr.py); the two functions are the same code.                            *)

PagInit ==
    /\ page = 1
    /\ all_items = <<>>
    /\ search_data = JNull
    /\ fetches = <<>>
    /\ timeline = <<>>

\* A well-formed search page: {items: [...], total_count: n}
SearchPage(its, total) == JDict([items |-> JList(its), total_count |-> total])

\* LoopStep leaving the loop before the items of the last page are added
LoopStepLastDropped(r) ==
    IF ~Truthy(r) \/ ~IsDict(r) THEN [brk |-> TRUE, add |-> <<>>]
    ELSE LET its == Get(r, "items", JList(<<>>))
             total == Get(r, "total_count", 0)
         IN IF ~IsList(its) \/ ~Truthy(its) THEN [brk |-> TRUE, add |-> <<>>]
            ELSE IF Len(its.v) < per_page \/ Len(all_items) + Len(its.v) >= total
                 THEN [brk |-> TRUE, add |-> <<>>]
                 ELSE [brk |-> FALSE, add |-> its.v]

\* LoopStep comparing the accumulated count to the total with > instead of >=
LoopStepStrictTotal(r) ==
    IF ~Truthy(r) \/ ~IsDict(r) THEN [brk |-> TRUE, add |-> <<>>]
    ELSE LET its == Get(r, "items", JList(<<>>))
             total == Get(r, "total_count", 0)
         IN IF ~IsList(its) \/ ~Truthy(its) THEN [brk |-> TRUE, add |-> <<>>]
            ELSE [brk |-> Len(its.v) < per_page
                          \/ Len(all_items) + Len(its.v) > total,
                  add |-> its.v]

\* One iteration of the while loop on response r.  brk: the loop is left.
LoopStep(r) ==
    IF ~Truthy(r) THEN [brk |-> TRUE, add |-> <<>>]
    ELSE IF ~IsDict(r) THEN [brk |-> TRUE, add |-> <<>>]
    ELSE LET its == Get(r, "items", JList(<<>>))
             total == Get(r, "total_count", 0)
         IN IF ~IsList(its) THEN [brk |-> TRUE, add |-> <<>>]
            ELSE IF ~Truthy(its) THEN [brk |-> TRUE, add |-> <<>>]
            ELSE [brk |-> Len(its.v) < per_page
                          \/ Len(all_items) + Len(its.v) >= total,
                  add |-> its.v]

\* SleepAfter delaying after the last page as well
SleepAfterAlways(brk) == <<"sleep">>

\* time.sleep(0.3) at the end of the loop body, reached unless the loop is left
SleepAfter(brk) == IF brk THEN <<>> ELSE <<"sleep">>

\* github_request(search_url) answered with r, then the loop body
FetchPage(r) ==
    /\ pc = "fetch"
    /\ fetches' = Append(fetches, [page |-> page, resp |-> r])
    /\ search_data' = r
    /\ LET s == LoopStep(r)
       IN /\ all_items' = all_items \o s.add
          /\ timeline' = timeline \o <<"fetch">> \o SleepAfter(s.brk)
          /\ page' = IF s.brk THEN page ELSE page + 1
          /\ pc' = IF s.brk THEN "return" ELSE "fetch"
    /\ calls' = Append(calls, "page")
    /\ UNCHANGED <<mainVars, procVars, envVars, fs>>

\* ReturnTotal answering 0 when the last request failed
ReturnTotalZeroOnFailure ==
    IF Truthy(search_data)
    THEN IF IsDict(search_data)
         THEN [raised |-> FALSE,
               total |-> Get(search_data, "total_count", Len(all_items))]
         ELSE [raised |-> TRUE, total |-> 0]
    ELSE [raised |-> FALSE, total |-> 0]

\* The value of the return statement's second component; raises when
\* search_data is a truthy value without a get method.
ReturnTotal ==
    IF Truthy(search_data)
    THEN IF IsDict(search_data)
         THEN [raised |-> FALSE,
               total |-> Get(search_data, "total_count", Len(all_items))]
         ELSE [raised |-> TRUE, total |-> 0]
    ELSE [raised |-> FALSE, total |-> Len(all_items)]

PaginatorReturn ==
    /\ pc = "return"
    /\ LET r == ReturnTotal
       IN IF r.raised
          THEN /\ pc' = "raised"
               /\ exit_code' = 1
               /\ UNCHANGED <<items, total_count>>
          ELSE /\ pc' = "paginated"
               /\ items' = all_items
               /\ total_count' = r.total
               /\ UNCHANGED exit_code
    /\ UNCHANGED <<pagVars, procVars, envVars, fs, report_rows, outputs, calls>>

-----------------------------------------------------------------------------
(* The hosting API as the scripts see it *)

Chars_me == <<"d","i","k","a","-","p","a","p","e","r">>
Chars_Me == <<"D","i","k","a","-","P","a","p","e","r">>
Chars_bob == <<"b","o","b">>
Chars_url == <<"u">>
Chars_staging == <<"s","t","a","g","i","n","g">>
Chars_stagingx == <<"s","t","a","g","i","n","g","x">>
Chars_release_ == <<"r","e","l","e","a","s","e","/">>
Chars_release == <<"r","e","l","e","a","s","e">>
Chars_release_12 == <<"r","e","l","e","a","s","e","/","1",".","2">>
Chars_Release_x == <<"R","e","l","e","a","s","e","/","x">>
Chars_main == <<"m","a","i","n">>
Chars_hotfix_ == <<"h","o","t","f","i","x","/">>
Chars_hotfix_1 == <<"h","o","t","f","i","x","/","1">>

User(login) == JDict([login |-> JStr(login)])
PullRequest == JDict([url |-> JStr(Chars_url)])
Base(ref) == JDict([base |-> JDict([ref |-> JStr(ref)])])
Comment(login, id, at) ==
    JDict([user |-> User(login), id |-> id, created_at |-> at])

\* A raw search item: the keys of the search result the scripts read
RawItem(n, user, pull_request) ==
    [number |-> n, user |-> user, pull_request |-> pull_request]

\* The pull requests of the repository, by number: the raw search item, the
\* answer of the detail endpoint and the answer of the comments endpoint.
World == <<
    \* 1: targets release/1.2; comments of the user (two spellings) and of bob
    [item |-> RawItem(1, User(Chars_bob), PullRequest),
     detail |-> Base(Chars_release_12),
     comments |-> JList(<<Comment(Chars_me, 11, 2), Comment(Chars_bob, 12, 1),
                          Comment(Chars_Me, 13, 1)>>)],
    \* 2: targets staging
    [item |-> RawItem(2, User(Chars_bob), PullRequest),
     detail |-> Base(Chars_staging),
     comments |-> JList(<<Comment(Chars_me, 21, 1)>>)],
    \* 3: targets main
    [item |-> RawItem(3, User(Chars_bob), PullRequest),
     detail |-> Base(Chars_main),
     comments |-> JList(<<Comment(Chars_me, 31, 1)>>)],
    \* 4: detail request fails (HTTP 404)
    [item |-> RawItem(4, User(Chars_bob), PullRequest),
     detail |-> JNull,
     comments |-> JList(<<Comment(Chars_me, 41, 1)>>)],
    \* 5: authored by the user, login spelled with capitals
    [item |-> RawItem(5, User(Chars_Me), PullRequest),
     detail |-> Base(Chars_release_12),
     comments |-> JList(<<Comment(Chars_me, 51, 3)>>)],
    \* 6: authored by the user, targets staging
    [item |-> RawItem(6, User(Chars_me), PullRequest),
     detail |-> Base(Chars_staging),
     comments |-> JList(<<Comment(Chars_me, 61, 1)>>)],
    \* 7: search item without a pull_request url
    [item |-> RawItem(7, User(Chars_bob), EmptyDict),
     detail |-> Base(Chars_release_12),
     comments |-> JList(<<Comment(Chars_me, 71, 1)>>)],
    \* 8: detail body is a list
    [item |-> RawItem(8, User(Chars_bob), PullRequest),
     detail |-> JList(<<1>>),
     comments |-> JList(<<Comment(Chars_me, 81, 1)>>)],
    \* 9: detail without a base mapping
    [item |-> RawItem(9, User(Chars_bob), PullRequest),
     detail |-> JDict([base |-> JNull]),
     comments |-> JList(<<Comment(Chars_me, 91, 1)>>)],
    \* 10: base.ref is null
    [item |-> RawItem(10, User(Chars_bob), PullRequest),
     detail |-> JDict([base |-> JDict([ref |-> JNull])]),
     comments |-> JList(<<Comment(Chars_me, 101, 1)>>)],
    \* 11: targets Release/x
    [item |-> RawItem(11, User(Chars_bob), PullRequest),
     detail |-> Base(Chars_Release_x),
     comments |-> JList(<<Comment(Chars_me, 111, 1)>>)],
    \* 12: targets hotfix/1
    [item |-> RawItem(12, User(Chars_bob), PullRequest),
     detail |-> Base(Chars_hotfix_1),
     comments |-> JList(<<Comment(Chars_me, 121, 1)>>)],
    \* 13: targets release/, comments request fails
    [item |-> RawItem(13, User(Chars_bob), PullRequest),
     detail |-> Base(Chars_release_),
     comments |-> JNull],
    \* 14: targets staging, only comments of others and malformed comments
    [item |-> RawItem(14, User(Chars_bob), PullRequest),
     detail |-> Base(Chars_staging),
     comments |-> JList(<<Comment(Chars_bob, 141, 1), JStr(Chars_me),
                          JDict([user |-> JNull, id |-> 142, created_at |-> 1])>>)],
    \* 15: search item whose user is null
    [item |-> RawItem(15, JNull, PullRequest),
     detail |-> Base(Chars_staging),
     comments |-> JList(<<Comment(Chars_Me, 151, 2)>>)],
    \* 16: targets stagingx
    [item |-> RawItem(16, User(Chars_bob), PullRequest),
     detail |-> Base(Chars_stagingx),
     comments |-> JList(<<Comment(Chars_me, 161, 1)>>)],
    \* 17: targets release (no slash)
    [item |-> RawItem(17, User(Chars_bob), PullRequest),
     detail |-> Base(Chars_release),
     comments |-> JList(<<Comment(Chars_me, 171, 1)>>)]
>>

\* github_request(pr_detail_url) and github_request(comments_url)
DetailOf(pr) == World[pr.number].detail
CommentsOf(pr_number) == World[pr_number].comments

-----------------------------------------------------------------------------
(* Per-item filter pipeline *)

\* get_pr_comments comparing the logins as they are spelled
get_pr_comments_exact(pr_number, username) ==
    LET comments_data == CommentsOf(pr_number)
        Keep(c) ==
            /\ IsDict(c)
            /\ IsDict(Get(c, "user", EmptyDict))
            /\ Get(Get(c, "user", EmptyDict), "login", JStr(<<>>)).v = username
    IN IF ~Truthy(comments_data) \/ ~IsList(comments_data)
       THEN <<>>
       ELSE LET kept == SelectSeq(comments_data.v, Keep)
            IN [k \in 1..Len(kept) |->
                   [id |-> Get(kept[k], "id", 0),
                    created_at |-> Get(kept[k], "created_at", 0)]]

\* get_pr_comments returning the first comment of the user only
get_pr_comments_first(pr_number, username) ==
    LET comments_data == CommentsOf(pr_number)
        Keep(c) ==
            /\ IsDict(c)
            /\ IsDict(Get(c, "user", EmptyDict))
            /\ Lower(Get(Get(c, "user", EmptyDict), "login", JStr(<<>>)).v)
                   = Lower(username)
    IN IF ~Truthy(comments_data) \/ ~IsList(comments_data)
       THEN <<>>
       ELSE LET kept == SelectSeq(comments_data.v, Keep)
            IN [k \in 1..(IF Len(kept) > 0 THEN 1 ELSE 0) |->
                   [id |-> Get(kept[k], "id", 0),
                    created_at |-> Get(kept[k], "created_at", 0)]]

\* get_pr_comments(pr_number, username) of review.py
get_pr_comments(pr_number, username) ==
    LET comments_data == CommentsOf(pr_number)
        Keep(c) ==
            /\ IsDict(c)
            /\ IsDict(Get(c, "user", EmptyDict))
            /\ Lower(Get(Get(c, "user", EmptyDict), "login", JStr(<<>>)).v)
                   = Lower(username)
    IN IF ~Truthy(comments_data) \/ ~IsList(comments_data)
       THEN <<>>
       ELSE LET kept == SelectSeq(comments_data.v, Keep)
            IN [k \in 1..Len(kept) |->
                   [id |-> Get(kept[k], "id", 0),
                    created_at |-> Get(kept[k], "created_at", 0)]]

\* pr.get('user', {}).get('login', '') if isinstance(pr.get('user'), dict) else ''
PrAuthor(pr) ==
    IF IsDict(pr.user) THEN Get(pr.user, "login", JStr(<<>>)).v ELSE <<>>

\* BranchAcceptedReview ignoring letter case
BranchAcceptedReviewAnyCase(base_branch) ==
    \/ Lower(base_branch) = Chars_staging
    \/ StartsWith(Lower(base_branch), Chars_release_)

\* The target-branch test of review.py (line 210)
BranchAcceptedReview(base_branch) ==
    ~(base_branch # Chars_staging /\ ~StartsWith(base_branch, Chars_release_))

\* The target-branch test of pr.py (line 168); branch_prefix is the parsed
\* --branch-prefix, which process_prs_in_batches is not given.
BranchAcceptedPr(base_branch, branch_prefix) ==
    StartsWith(base_branch, Chars_release_)

\* SelfAuthored comparing the logins as they are spelled
SelfAuthoredExact(pr_author, username) == pr_author = username

\* The self-authorship test of review.py (line 184)
SelfAuthored(pr_author, username) == Lower(pr_author) = Lower(username)

\* The predicate chain of process_prs_for_comments (lines 182-212): TRUE when
\* no `continue` is taken and the comments of the item are fetched.
ReviewAccepts(pr, username) ==
    LET pr_author == PrAuthor(pr)
        pr_detail_url == Get(pr.pull_request, "url", JNull)
        pr_details == DetailOf(pr)
        base_info == Get(pr_details, "base", JNull)
        base_branch == Get(base_info, "ref", JStr(<<>>))
    IN IF SelfAuthored(pr_author, username) THEN FALSE
       ELSE IF ~Truthy(pr_detail_url) THEN FALSE
       ELSE IF ~Truthy(pr_details) \/ ~IsDict(pr_details) THEN FALSE
       ELSE IF ~IsDict(base_info) THEN FALSE
       ELSE IF ~IsStr(base_branch) THEN FALSE
       ELSE BranchAcceptedReview(base_branch.v)

\* The body of the inner loop of process_prs_for_comments for one item:
\* the records it appends to batch_comments.
ReviewItem(pr, username) ==
    IF ~ReviewAccepts(pr, username) THEN <<>>
    ELSE LET pr_comments == get_pr_comments(pr.number, username)
         IN [k \in 1..Len(pr_comments) |->
                [pr_number |-> pr.number,
                 pr_author |-> PrAuthor(pr),
                 target_branch |-> Get(Get(DetailOf(pr), "base", JNull),
                                       "ref", JStr(<<>>)).v,
                 comment_id |-> pr_comments[k].id,
                 created_at |-> pr_comments[k].created_at]]

\* The predicate chain of process_prs_in_batches (lines 150-170)
PrAccepts(pr, branch_prefix) ==
    LET pr_detail_url == Get(pr.pull_request, "url", JNull)
        pr_details == DetailOf(pr)
        base_info == Get(pr_details, "base", JNull)
        base_branch == Get(base_info, "ref", JStr(<<>>))
    IN IF ~Truthy(pr_detail_url) THEN FALSE
       ELSE IF ~Truthy(pr_details) \/ ~IsDict(pr_details) THEN FALSE
       ELSE IF ~IsDict(base_info) THEN FALSE
       ELSE IF ~IsStr(base_branch) THEN FALSE
       ELSE BranchAcceptedPr(base_branch.v, branch_prefix)

\* The body of the inner loop of process_prs_in_batches for one item:
\* the records it appends to batch_release_prs.
PrItem(pr, branch_prefix) ==
    IF ~PrAccepts(pr, branch_prefix) THEN <<>>
    ELSE <<[number |-> pr.number,
            target_branch |-> Get(Get(DetailOf(pr), "base", JNull),
                                  "ref", JStr(<<>>)).v]>>

\* ReviewCalls fetching the comments of every item that has a detail url
ReviewCallsEager(pr, username) ==
    IF SelfAuthored(PrAuthor(pr), username) THEN <<>>
    ELSE IF ~Truthy(Get(pr.pull_request, "url", JNull)) THEN <<>>
    ELSE <<"detail", "comments">>

\* The requests the inner loop of process_prs_for_comments issues for one
\* item: none before the detail url is known, the detail request, and the
\* comments request once every predicate passed
ReviewCalls(pr, username) ==
    IF SelfAuthored(PrAuthor(pr), username) THEN <<>>
    ELSE IF ~Truthy(Get(pr.pull_request, "url", JNull)) THEN <<>>
    ELSE IF ReviewAccepts(pr, username) THEN <<"detail", "comments">>
    ELSE <<"detail">>

\* The requests the inner loop of process_prs_in_batches issues for one item
PrCalls(pr) ==
    IF ~Truthy(Get(pr.pull_request, "url", JNull)) THEN <<>> ELSE <<"detail">>

\* ItemCalls repeating a detail request that failed
ItemCallsRetry(pr) ==
    IF Truthy(Get(pr.pull_request, "url", JNull)) /\ ~Truthy(DetailOf(pr))
       /\ (args.report = "review" => ~SelfAuthored(PrAuthor(pr), args.username))
    THEN <<"detail", "detail">>
    ELSE IF args.report = "review" THEN ReviewCalls(pr, args.username)
    ELSE PrCalls(pr)

ItemCalls(pr) ==
    IF args.report = "review" THEN ReviewCalls(pr, args.username) ELSE PrCalls(pr)

ItemAccepted(pr) ==
    IF args.report = "review"
    THEN ReviewAccepts(pr, args.username)
    ELSE PrAccepts(pr, args.branch_prefix)

\* ItemResults taking a detail that is not a mapping as it comes
ItemResultsUnchecked(pr) ==
    IF Truthy(DetailOf(pr)) /\ ~IsDict(DetailOf(pr))
    THEN IF args.report = "review"
         THEN <<[pr_number |-> pr.number, pr_author |-> PrAuthor(pr),
                 target_branch |-> <<>>, comment_id |-> 0, created_at |-> 0]>>
         ELSE <<[number |-> pr.number, target_branch |-> <<>>]>>
    ELSE IF args.report = "review"
         THEN ReviewItem(pr, args.username)
         ELSE PrItem(pr, args.branch_prefix)

ItemResults(pr) ==
    IF args.report = "review"
    THEN ReviewItem(pr, args.username)
    ELSE PrItem(pr, args.branch_prefix)

-----------------------------------------------------------------------------
(* Progress file: save_progress / load_progress *)

Absent == [t |-> "absent"]      \* os.path.exists(filename) is false
Partial == [t |-> "partial"]    \* opened with 'w', json.dump not finished

\* progress_data of review.py (lines 247-254)
ReviewProgress(processed, comments) ==
    JDict([timestamp |-> now,
           total_prs |-> Len(items),
           processed_count |-> Len(processed),
           comments_found |-> Len(comments),
           processed |-> processed,
           all_comments |-> comments])

\* progress_data of pr.py (lines 200-207)
PrProgress(processed, release_prs) ==
    JDict([timestamp |-> now,
           total_prs |-> Len(items),
           processed_count |-> Len(processed),
           release_prs_found |-> Len(release_prs),
           processed |-> processed,
           release_prs |-> release_prs])

\* ProgressData storing the items of this run only, not the cumulative list
ProgressDataOfThisRun(processed, res) ==
    LET delta == SubSeq(processed, start_index + 1, Len(processed))
    IN IF args.report = "review"
       THEN ReviewProgress(delta, res)
       ELSE PrProgress(delta, res)

ProgressData(processed, res) ==
    IF args.report = "review"
    THEN ReviewProgress(processed, res)
    ELSE PrProgress(processed, res)

\* The result list a run starts with, given the loaded progress document:
\* review.py reads all_comments back (line 165), pr.py starts release_prs
\* empty whatever was loaded (line 138).
InitialResults(progress) ==
    IF args.report = "review" /\ Truthy(progress)
    THEN Get(progress, "all_comments", <<>>)
    ELSE <<>>

\* StartIndex ignoring the loaded document
StartIndexZero(progress) == 0

\* The resume offset (review.py lines 161-168, pr.py lines 130-136)
StartIndex(progress) ==
    IF Truthy(progress) THEN Len(Get(progress, "processed", <<>>)) ELSE 0

-----------------------------------------------------------------------------
(* Batch processor: process_prs_for_comments / process_prs_in_batches *)

\* LoopPc leaving the loop after the first batch
LoopPcOneBatch(next_i) == "processed"

\* LoopPc going back to the paginator when the items are used up
LoopPcRefetch(next_i) == IF next_i < Len(items) THEN "item" ELSE "fetch"

\* for i in range(start_index, len(items), batch_size): the loop test
LoopPc(next_i) == IF next_i < Len(items) THEN "item" ELSE "processed"

\* Batch holding the first item of the slice only
BatchOfOne == SubSeq(items, i + 1, i + 1)

\* batch = items[i:i+batch_size]
Batch == SubSeq(items, i + 1,
                IF i + args.batch_size < Len(items)
                THEN i + args.batch_size ELSE Len(items))

\* Entry of the function up to the first loop test
LoadProgress ==
    /\ pc = "load"
    /\ progress_file' = now
    /\ IF fs[now] = Partial
       THEN \* json.load raises on the truncated document
            /\ pc' = "raised"
            /\ exit_code' = 1
            /\ UNCHANGED <<processed_prs, start_index, results, i, j,
                           batch_results, filtered, accepted, loaded>>
       ELSE LET progress == IF fs[now] = Absent THEN JNull ELSE fs[now]
            IN /\ loaded' = progress
               /\ processed_prs' = IF Truthy(progress)
                                   THEN Get(progress, "processed", <<>>)
                                   ELSE <<>>
               /\ start_index' = StartIndex(progress)
               /\ results' = InitialResults(progress)
               /\ i' = StartIndex(progress)
               /\ j' = 0
               /\ batch_results' = <<>>
               /\ filtered' = <<>>
               /\ accepted' = <<>>
               /\ pc' = LoopPc(StartIndex(progress))
               /\ UNCHANGED exit_code
    /\ UNCHANGED <<pagVars, envVars, fs, items, total_count, report_rows,
                   outputs, calls, saves>>

\* One pass of the inner loop: the item at index i + j goes through the filter
ProcessItem ==
    /\ pc = "item"
    /\ j < Len(Batch)
    /\ batch_results' = batch_results \o ItemResults(Batch[j + 1])
    /\ filtered' = Append(filtered, i + j)
    /\ accepted' = IF ItemAccepted(Batch[j + 1])
                   THEN Append(accepted, i + j) ELSE accepted
    /\ j' = j + 1
    /\ calls' = calls \o ItemCalls(Batch[j + 1])
    /\ UNCHANGED <<pagVars, mainVars, envVars, fs, pc, progress_file,
                   processed_prs, start_index, results, i, loaded, saves>>

\* End of the batch: extend the lists, build progress_data, and open the
\* progress file for writing, which truncates it
SaveOpen ==
    /\ pc = "item"
    /\ j = Len(Batch)
    /\ results' = results \o batch_results
    /\ processed_prs' = processed_prs \o Batch
    /\ fs' = [fs EXCEPT ![progress_file] = Partial]
    /\ pc' = "save"
    /\ UNCHANGED <<pagVars, mainVars, envVars, progress_file, start_index,
                   i, j, batch_results, filtered, accepted, loaded, calls, saves>>

\* json.dump completes and the file is closed; then the next loop test
SaveDump ==
    /\ pc = "save"
    /\ fs' = [fs EXCEPT ![progress_file] = ProgressData(processed_prs, results)]
    /\ i' = i + args.batch_size
    /\ j' = 0
    /\ batch_results' = <<>>
    /\ pc' = LoopPc(i + args.batch_size)
    /\ saves' = Append(saves, ProgressData(processed_prs, results))
    /\ UNCHANGED <<pagVars, mainVars, envVars, progress_file, processed_prs,
                   start_index, results, filtered, accepted, loaded, calls>>

-----------------------------------------------------------------------------
(* Final report: generate_final_report *)

\* list.sort(key=lambda x: x[key], reverse=reverse): stable both ways
RECURSIVE InsertSorted(_, _, _, _)
InsertSorted(sorted, x, key, reverse) ==
    IF sorted = <<>> THEN <<x>>
    ELSE LET last == sorted[Len(sorted)]
             before == IF reverse THEN last[key] >= x[key]
                                  ELSE last[key] <= x[key]
         IN IF before THEN Append(sorted, x)
            ELSE Append(InsertSorted(SubSeq(sorted, 1, Len(sorted) - 1),
                                     x, key, reverse), last)

\* SortBy inserting the records last to first: equal keys come out reversed
RECURSIVE SortByBackwards(_, _, _)
SortByBackwards(s, key, reverse) ==
    IF s = <<>> THEN <<>>
    ELSE InsertSorted(SortByBackwards(Tail(s), key, reverse), Head(s), key, reverse)

RECURSIVE SortBy(_, _, _)
SortBy(s, key, reverse) ==
    IF s = <<>> THEN <<>>
    ELSE InsertSorted(SortBy(SubSeq(s, 1, Len(s) - 1), key, reverse),
                      s[Len(s)], key, reverse)

\* The records of s without repetitions, in the order of first appearance
RECURSIVE Unique(_)
Unique(s) ==
    IF s = <<>> THEN <<>>
    ELSE LET rest == Unique(SubSeq(s, 1, Len(s) - 1))
             x == s[Len(s)]
         IN IF \E k \in 1..Len(rest) : rest[k] = x THEN rest ELSE Append(rest, x)

\* SortedReport dropping repeated records before it sorts
SortedReportUnique(res) ==
    IF args.report = "review" THEN SortBy(Unique(res), "created_at", FALSE)
    ELSE IF args.report = "commit" THEN SortBy(Unique(res), "author_date", FALSE)
    ELSE SortBy(Unique(res), "number", TRUE)

\* review.py line 269 / commit.py line 166 / pr.py line 222
SortedReport(res) ==
    IF args.report = "review" THEN SortBy(res, "created_at", FALSE)
    ELSE IF args.report = "commit" THEN SortBy(res, "author_date", FALSE)
    ELSE SortBy(res, "number", TRUE)

\* What the report step leaves of the progress file
ProgressFileAfterReport(res) ==
    IF res = <<>> THEN fs[progress_file] ELSE Absent

\* OutputsWritten without the early return for an empty list
OutputsWrittenAlways(res) ==
    IF args.report = "review" THEN {"csv", "json"} ELSE {"csv"}

\* The report files the step creates: review.py writes the CSV and the JSON
\* dump, pr.py and commit.py the CSV; nothing is created for an empty list
OutputsWritten(res) ==
    IF res = <<>> THEN {}
    ELSE IF args.report = "review" THEN {"csv", "json"} ELSE {"csv"}

GenerateFinalReport ==
    /\ pc = "processed"
    /\ report_rows' = IF results = <<>> THEN <<>> ELSE SortedReport(results)
    /\ fs' = [fs EXCEPT ![progress_file] = ProgressFileAfterReport(results)]
    /\ outputs' = OutputsWritten(results)
    /\ pc' = "done"
    /\ exit_code' = 0
    /\ UNCHANGED <<pagVars, procVars, envVars, items, total_count, calls>>

-----------------------------------------------------------------------------
(* commit.py: get_all_commits_fast, process_commits_for_listing,            *)
(* generate_commit_list_report                                              *)

Chars_fix == <<"f","i","x">>
Chars_GitHub == <<"G","i","t","H","u","b">>
Chars_Merge_branch == <<"M","e","r","g","e"," ","b","r","a","n","c","h">>
Chars_Merge_branch_x == <<"M","e","r","g","e"," ","b","r","a","n","c","h"," ","x">>
Chars_fix_Merge_branch ==
    <<"f","i","x","\n","M","e","r","g","e"," ","b","r","a","n","c","h">>

\* A commit of the list endpoint: the keys process_commits_for_listing reads
Commit(sha, message, date, committer, url) ==
    [sha |-> sha,
     commit |-> JDict([message |-> JStr(message),
                       author |-> JDict([date |-> date]),
                       committer |-> JDict([name |-> JStr(committer)])]),
     url |-> url]

CommitDetail(additions, deletions, files) ==
    JDict([stats |-> JDict([additions |-> additions, deletions |-> deletions]),
           files |-> JList(files)])

\* The commits of the repository, by sha: the list entry and the answer of
\* the commit endpoint
CommitWorld == <<
    \* 1: ordinary commit
    [item |-> Commit(1, Chars_fix, 2, Chars_bob, JStr(Chars_url)),
     detail |-> CommitDetail(5, 2, <<1>>)],
    \* 2: the commit endpoint fails (HTTP 404)
    [item |-> Commit(2, Chars_fix, 1, Chars_bob, JStr(Chars_url)),
     detail |-> JNull],
    \* 3: merge committed by GitHub
    [item |-> Commit(3, Chars_fix, 1, Chars_GitHub, JStr(Chars_url)),
     detail |-> CommitDetail(1, 1, <<1>>)],
    \* 4: merge by message
    [item |-> Commit(4, Chars_Merge_branch_x, 1, Chars_bob, JStr(Chars_url)),
     detail |-> CommitDetail(1, 0, <<1, 2>>)],
    \* 5: no url; "Merge branch" on the second line of the message only
    [item |-> Commit(5, Chars_fix_Merge_branch, 2, Chars_bob, JNull),
     detail |-> CommitDetail(9, 9, <<1>>)],
    \* 6: the commit endpoint answers with a list
    [item |-> Commit(6, Chars_fix, 1, Chars_bob, JStr(Chars_url)),
     detail |-> JList(<<1>>)] >>

CommitDetailOf(commit) == CommitWorld[commit.sha].detail

\* One iteration of the while loop of get_all_commits_fast on response r
CommitsLoopStep(r) ==
    IF ~Truthy(r) THEN [brk |-> TRUE, add |-> <<>>]
    ELSE IF ~IsList(r) THEN [brk |-> TRUE, add |-> <<>>]
    ELSE [brk |-> Len(r.v) < per_page, add |-> r.v]

\* github_request(commits_url) answered with r, the loop body, and the
\* return statement once the loop is left
FetchCommitsPage(r) ==
    /\ pc = "fetch_commits"
    /\ fetches' = Append(fetches, [page |-> page, resp |-> r])
    /\ calls' = Append(calls, "page")
    /\ LET s == CommitsLoopStep(r)
       IN /\ all_items' = all_items \o s.add
          /\ timeline' = timeline \o <<"fetch">> \o SleepAfter(s.brk)
          /\ page' = IF s.brk THEN page ELSE page + 1
          /\ pc' = IF s.brk THEN "paginated" ELSE "fetch_commits"
          /\ items' = IF s.brk THEN all_items \o s.add ELSE items
          /\ total_count' = IF s.brk THEN Len(all_items \o s.add) ELSE total_count
    /\ UNCHANGED <<procVars, envVars, fs, search_data, exit_code, report_rows,
                   outputs>>

\* message.split('\n')[0]
RECURSIVE FirstLine(_)
FirstLine(s) ==
    IF s = <<>> THEN <<>>
    ELSE IF Head(s) = "\n" THEN <<>>
    ELSE <<Head(s)>> \o FirstLine(Tail(s))

ZeroStats == [additions |-> 0, deletions |-> 0, files |-> 0]

\* commit.py lines 109-120: the stats stay zero unless the commit endpoint
\* answers with a dict
CommitStats(commit) ==
    IF Truthy(commit.url)
    THEN LET commit_details == CommitDetailOf(commit)
         IN IF Truthy(commit_details) /\ IsDict(commit_details)
            THEN LET stats == Get(commit_details, "stats", EmptyDict)
                 IN [additions |-> Get(stats, "additions", 0),
                     deletions |-> Get(stats, "deletions", 0),
                     files |-> Len(Get(commit_details, "files", JList(<<>>)).v)]
            ELSE ZeroStats
    ELSE ZeroStats

\* commit.py lines 127 and 132: the two merge-commit tests
CommitSkipped(commit) ==
    LET commit_info == commit.commit
        commit_message == FirstLine(Get(commit_info, "message", JStr(<<>>)).v)
        committer_info == Get(commit_info, "committer", EmptyDict)
    IN \/ Get(committer_info, "name", JStr(<<>>)).v = Chars_GitHub
       \/ StartsWith(commit_message, Chars_Merge_branch)

\* process_commits_for_listing dropping a commit whose detail request failed
CommitItemDropsFailed(commit) ==
    IF CommitSkipped(commit) THEN <<>>
    ELSE IF Truthy(commit.url) /\ ~Truthy(CommitDetailOf(commit)) THEN <<>>
    ELSE LET commit_stats == CommitStats(commit)
             commit_info == commit.commit
         IN << [sha |-> commit.sha,
                message |-> FirstLine(Get(commit_info, "message", JStr(<<>>)).v),
                author_date |-> Get(Get(commit_info, "author", EmptyDict), "date", 0),
                lines_added |-> commit_stats.additions,
                lines_deleted |-> commit_stats.deletions,
                files_changed |-> commit_stats.files] >>

\* The records one commit adds to commit_list
CommitItem(commit) ==
    IF CommitSkipped(commit) THEN <<>>
    ELSE LET commit_stats == CommitStats(commit)
             commit_info == commit.commit
         IN << [sha |-> commit.sha,
                message |-> FirstLine(Get(commit_info, "message", JStr(<<>>)).v),
                author_date |-> Get(Get(commit_info, "author", EmptyDict), "date", 0),
                lines_added |-> commit_stats.additions,
                lines_deleted |-> commit_stats.deletions,
                files_changed |-> commit_stats.files] >>

\* The requests one iteration of process_commits_for_listing issues
CommitCalls(commit) ==
    IF Truthy(commit.url) THEN <<"detail">> ELSE <<>>

\* One iteration of the for loop of process_commits_for_listing
ProcessCommit ==
    /\ pc = "commits"
    /\ i < Len(items)
    /\ LET commit == items[i + 1]
       IN /\ results' = results \o CommitItem(commit)
          /\ filtered' = Append(filtered, i)
          /\ accepted' = IF CommitItem(commit) # <<>> THEN Append(accepted, i)
                         ELSE accepted
          /\ calls' = calls \o CommitCalls(commit)
    /\ i' = i + 1
    /\ pc' = IF i + 1 < Len(items) THEN "commits" ELSE "listed"
    /\ UNCHANGED <<pagVars, mainVars, envVars, fs, progress_file, processed_prs,
                   start_index, j, batch_results, loaded, saves>>

\* generate_commit_list_report: no progress file is involved
GenerateCommitListReport ==
    /\ pc = "listed"
    /\ report_rows' = IF results = <<>> THEN <<>> ELSE SortedReport(results)
    /\ outputs' = OutputsWritten(results)
    /\ pc' = "done"
    /\ exit_code' = 0
    /\ UNCHANGED <<pagVars, procVars, envVars, fs, items, total_count, calls>>

-----------------------------------------------------------------------------
(* main *)

Chars_token == <<"t">>
Chars_org == <<"o">>
Chars_repo == <<"r">>

\* The sprint names of sprint_config
sprint_config == {"sprint-1"}

\* Validate skipping the lookup of the sprint
ValidateNoSprint(a) ==
    IF a.token = <<>> THEN 1
    ELSE IF a.org = <<>> \/ a.repository = <<>> \/ a.username = <<>> THEN 1
    ELSE 0

\* The validation at the head of main: the code it returns, 0 to go on
Validate(a) ==
    IF a.token = <<>> THEN 1
    ELSE IF a.org = <<>> \/ a.repository = <<>> \/ a.username = <<>> THEN 1
    ELSE IF a.sprint \notin sprint_config THEN 1
    ELSE 0

\* main up to the first request
MainStart ==
    /\ pc = "main"
    /\ IF Validate(args) # 0
       THEN pc' = "rejected" /\ exit_code' = Validate(args)
       ELSE /\ pc' = IF args.report = "commit" THEN "fetch_commits" ELSE "fetch"
            /\ UNCHANGED exit_code
    /\ UNCHANGED <<pagVars, procVars, envVars, fs, items, total_count, report_rows,
                   outputs, calls>>

RunInit ==
    /\ PagInit
    /\ items = <<>>
    /\ total_count = 0
    /\ progress_file = 0
    /\ processed_prs = <<>>
    /\ start_index = 0
    /\ results = <<>>
    /\ i = 0
    /\ j = 0
    /\ batch_results = <<>>
    /\ filtered = <<>>
    /\ accepted = <<>>
    /\ loaded = JNull
    /\ report_rows = <<>>
    /\ exit_code = -1
    /\ calls = <<>>
    /\ saves = <<>>
    /\ outputs = {}

\* Step 1 of main: the search answers with the failure value or with the
\* page of the repository's items
HonestPage(p) ==
    SearchPage(SubSeq(repo, (p - 1) * per_page + 1,
                      IF p * per_page < Len(repo) THEN p * per_page ELSE Len(repo)),
               Len(repo))

FetchPageMain ==
    \E r \in {JNull, HonestPage(page)} : FetchPage(r)

\* Step 1 of commit.py: the same of the commits endpoint
HonestCommitsPage(p) ==
    JList(SubSeq(repo, (p - 1) * per_page + 1,
                 IF p * per_page < Len(repo) THEN p * per_page ELSE Len(repo)))

FetchCommitsPageMain ==
    \E r \in {JNull, HonestCommitsPage(page)} : FetchCommitsPage(r)

\* main lines 414-419: nothing found, or on to the batch processor
AfterFetch ==
    /\ pc = "paginated"
    /\ IF items = <<>>
       THEN pc' = "done" /\ exit_code' = 0
       ELSE /\ pc' = IF args.report = "commit" THEN "commits" ELSE "load"
            /\ UNCHANGED exit_code
    /\ UNCHANGED <<pagVars, procVars, envVars, fs, items, total_count, report_rows,
                   outputs, calls>>

Running == {"main", "fetch", "return", "fetch_commits", "paginated", "load", "item",
            "save", "processed", "commits", "listed"}
Stopped == {"done", "rejected", "raised", "killed"}

\* The operator interrupts the run (KeyboardInterrupt, kill)
Interrupt ==
    /\ pc \in Running
    /\ pc' = "killed"
    /\ exit_code' = 130
    /\ UNCHANGED <<pagVars, procVars, envVars, fs, items, total_count, report_rows,
                   outputs, calls>>

\* The script is started again, in the same second or later
Rerun ==
    /\ pc \in Stopped
    /\ \E t \in now..MaxClock : now' = t
    /\ pc' = "main"
    /\ page' = 1
    /\ all_items' = <<>>
    /\ search_data' = JNull
    /\ fetches' = <<>>
    /\ timeline' = <<>>
    /\ items' = <<>>
    /\ total_count' = 0
    /\ progress_file' = 0
    /\ processed_prs' = <<>>
    /\ start_index' = 0
    /\ results' = <<>>
    /\ i' = 0
    /\ j' = 0
    /\ batch_results' = <<>>
    /\ filtered' = <<>>
    /\ accepted' = <<>>
    /\ loaded' = JNull
    /\ report_rows' = <<>>
    /\ exit_code' = -1
    /\ calls' = <<>>
    /\ saves' = <<>>
    /\ outputs' = {}
    /\ UNCHANGED <<args, repo, fs>>

\* The items a full run meets: accepted by both reports (1), by review.py
\* only (2), by neither (4: detail fails), by pr.py only (5: self-authored)
Items == {World[n].item : n \in {1, 2, 4, 5}}

RECURSIVE SeqsUpTo(_, _)
SeqsUpTo(S, n) ==
    IF n = 0 THEN {<<>>}
    ELSE LET shorter == SeqsUpTo(S, n - 1)
         IN shorter \cup {Append(s, x) : s \in {q \in shorter : Len(q) = n - 1}, x \in S}

\* The commits a full run meets: kept (1), kept although its detail fails
\* (2), skipped as merge commits (3, 4)
Commits == {CommitWorld[n].item : n \in {1, 2, 3, 4}}

\* A complete configuration of one of the three scripts; commit.py has no
\* --batch-size
ValidArgs ==
    [report : {"review", "pr"}, username : {Chars_me}, batch_size : 1..MaxBatch,
     branch_prefix : {Chars_release_}, token : {Chars_token}, org : {Chars_org},
     repository : {Chars_repo}, sprint : {"sprint-1"}]
    \cup
    [report : {"commit"}, username : {Chars_me}, batch_size : {1},
     branch_prefix : {Chars_release_}, token : {Chars_token}, org : {Chars_org},
     repository : {Chars_repo}, sprint : {"sprint-1"}]

\* A configuration with one setting missing, empty or unknown
FaultyArgs ==
    LET ok == [report : {"review", "pr", "commit"}, username : {Chars_me},
               batch_size : {1}, branch_prefix : {Chars_release_},
               token : {Chars_token}, org : {Chars_org},
               repository : {Chars_repo}, sprint : {"sprint-1"}]
    IN {[a EXCEPT !.token = <<>>] : a \in ok}
       \cup {[a EXCEPT !.org = <<>>] : a \in ok}
       \cup {[a EXCEPT !.repository = <<>>] : a \in ok}
       \cup {[a EXCEPT !.username = <<>>] : a \in ok}
       \cup {[a EXCEPT !.sprint = "sprint-0"] : a \in ok}

Args == ValidArgs \cup FaultyArgs

Init ==
    /\ args \in Args
    /\ repo \in IF args.report = "commit" THEN SeqsUpTo(Commits, MaxItems)
                ELSE SeqsUpTo(Items, MaxItems)
    /\ now = 1
    /\ fs = [t \in 1..MaxClock |-> Absent]
    /\ pc = "main"
    /\ RunInit

Next ==
    \/ MainStart
    \/ FetchPageMain
    \/ PaginatorReturn
    \/ FetchCommitsPageMain
    \/ AfterFetch
    \/ LoadProgress
    \/ ProcessItem
    \/ SaveOpen
    \/ SaveDump
    \/ GenerateFinalReport
    \/ ProcessCommit
    \/ GenerateCommitListReport
    \/ Interrupt
    \/ Rerun

Spec == Init /\ [][Next]_vars

-----------------------------------------------------------------------------
(* The paginator on its own, against a server that holds up to MaxBigPages  *)
(* full pages and may fail, answer with a malformed body, report any total, *)
(* cut a page short, or shift a page by one item (the result set changed    *)
(* during the crawl).  Raw items are opaque to the paginator: here they are *)
(* the integers 1..N.                                                       *)

Min(a, b) == IF a < b THEN a ELSE b

ServerSizes ==
    {n \in 0..(MaxBigPages * per_page + 20) :
        n % per_page \in {0, 1, 20, per_page - 1}}

\* The items the server returns for page p, shifted back by `shift` items and
\* with `cut` items missing at the end
Slice(p, shift, cut) ==
    LET first == Min((p - 1) * per_page + 1 - IF p > 1 THEN shift ELSE 0,
                     Len(repo) + 1)
        last == Min(first + per_page - 1, Len(repo)) - cut
    IN SubSeq(repo, first, last)

PageResponses(p) ==
    {JNull, EmptyDict, JList(<<1>>),
     JDict([items |-> JStr(<<"x">>), total_count |-> Len(repo)]),
     JDict([message |-> JStr(<<"x">>)])}
    \cup
    {SearchPage(Slice(p, shift, cut), total) :
        shift \in {0, 1}, cut \in {0, 1},
        total \in {0, Len(repo), Len(all_items) + per_page}}

FetchPageAny ==
    \E r \in PageResponses(page) : FetchPage(r)

InitPage ==
    /\ args = [report |-> "review", username |-> Chars_me, batch_size |-> 1,
               branch_prefix |-> Chars_release_]
    /\ \E n \in ServerSizes : repo = [k \in 1..n |-> k]
    /\ now = 1
    /\ fs = [t \in 1..MaxClock |-> Absent]
    /\ pc = "fetch"
    /\ RunInit

NextPage ==
    \/ FetchPageAny
    \/ PaginatorReturn

SpecPage == InitPage /\ [][NextPage]_vars

-----------------------------------------------------------------------------
(* The batch processor on its own, from scratch, over every kind of item    *)
(* of the repository and both spellings of the target username.             *)

AllItems == {World[n].item : n \in 1..Len(World)}

ArgsFilter ==
    [report : {"review"}, username : {Chars_me, Chars_Me},
     batch_size : 1..MaxBatch, branch_prefix : {Chars_release_}]
    \cup
    [report : {"pr"}, username : {Chars_me},
     batch_size : 1..MaxBatch, branch_prefix : {Chars_release_, Chars_hotfix_}]

InitFilter ==
    /\ args \in ArgsFilter
    /\ repo \in SeqsUpTo(AllItems, MaxFilterItems) \ {<<>>}
    /\ now = 1
    /\ fs = [t \in 1..MaxClock |-> Absent]
    /\ pc = "load"
    /\ PagInit
    /\ items = repo
    /\ total_count = Len(repo)
    /\ progress_file = 0
    /\ processed_prs = <<>>
    /\ start_index = 0
    /\ results = <<>>
    /\ i = 0
    /\ j = 0
    /\ batch_results = <<>>
    /\ filtered = <<>>
    /\ accepted = <<>>
    /\ loaded = JNull
    /\ report_rows = <<>>
    /\ exit_code = -1
    /\ calls = <<>>
    /\ saves = <<>>
    /\ outputs = {}

NextFilter ==
    \/ LoadProgress
    \/ ProcessItem
    \/ SaveOpen
    \/ SaveDump
    \/ GenerateFinalReport

SpecFilter == InitFilter /\ [][NextFilter]_vars

-----------------------------------------------------------------------------
(* Properties of the paginator (checked under SpecPage) *)

\* {items: [...], total_count: n}
IsWellFormedPage(r) ==
    /\ IsDict(r)
    /\ {"items", "total_count"} \subseteq DOMAIN r.v
    /\ IsList(r.v.items)

AllWellFormed == \A k \in 1..Len(fetches) : IsWellFormedPage(fetches[k].resp)

\* The items of the well-formed pages of a request log, in request order
RECURSIVE ConcatPages(_)
ConcatPages(log) ==
    IF log = <<>> THEN <<>>
    ELSE LET r == log[Len(log)].resp
         IN ConcatPages(SubSeq(log, 1, Len(log) - 1))
            \o (IF IsWellFormedPage(r) THEN r.v.items.v ELSE <<>>)

\* Number of items delivered by the first k requests
CountAfter(k) == Len(ConcatPages(SubSeq(fetches, 1, k)))

\* Page k lets the loop go on: full, and the count is still below its total
GoesOn(k) ==
    /\ IsWellFormedPage(fetches[k].resp)
    /\ Len(fetches[k].resp.v.items.v) = per_page
    /\ CountAfter(k) < fetches[k].resp.v.total_count

\* C4: when every page fetched is well-formed, the paginator stops at the
\* first page that is short or reaches its total_count, never raises, and
\* returns exactly the concatenation, in request order, of the items of every
\* page it fetched.
C4_PaginatorConcatenation ==
    AllWellFormed =>
        /\ pc # "raised"
        /\ all_items = ConcatPages(fetches)
        /\ pc = "paginated" => items = ConcatPages(fetches)
        /\ pc = "fetch" => \A k \in 1..Len(fetches) : GoesOn(k)

\* Two well-formed pages fetched, the second repeating the last item of the
\* first, and both returned in full
C4_Witness ==
    /\ pc = "paginated"
    /\ AllWellFormed
    /\ Len(fetches) = 2
    /\ Len(items) = 2 * per_page
    /\ items[per_page] = items[per_page + 1]

\* The server answers every request with the page of its N items and total N
HonestServer ==
    \A k \in 1..Len(fetches) :
        fetches[k].resp = SearchPage(Slice(k, 0, 0), Len(repo))

CeilDiv(a, b) == (a + b - 1) \div b

\* C5: pages are requested as 1, 2, 3, ... each once; page p+1 is requested
\* only after page p came back well-formed with exactly per_page items and an
\* accumulated count below its total_count; against a server that holds
\* N >= 1 items and reports total_count = N, the finished paginator has issued
\* exactly ceil(N / per_page) requests.
C5_PageRequestOrder ==
    /\ \A k \in 1..Len(fetches) : fetches[k].page = k
    /\ \A k \in 1..(Len(fetches) - 1) : GoesOn(k)
    /\ pc = "fetch" => page = Len(fetches) + 1
    /\ (pc \in {"return", "paginated"} /\ HonestServer /\ Len(repo) >= 1)
          => Len(fetches) = CeilDiv(Len(repo), per_page)

\* 120 items on an honest server: two requests
C5_Witness ==
    /\ pc = "paginated"
    /\ HonestServer
    /\ Len(repo) = per_page + 20
    /\ Len(fetches) = 2
    /\ Len(items) = per_page + 20

\* The request failed, or its body is not a mapping, or 'items' is not a list
IsBadPage(r) ==
    \/ r = JNull
    \/ ~IsDict(r)
    \/ IsDict(r) /\ "items" \in DOMAIN r.v /\ ~IsList(r.v.items)

\* C6: after a failed or mis-shaped page the paginator returns normally,
\* with the items of the pages before the bad one.
C6_BadPageReturnsNormally ==
    (/\ Len(fetches) >= 1
     /\ IsBadPage(fetches[Len(fetches)].resp)
     /\ pc \notin {"fetch", "return"})
        => /\ pc = "paginated"
           /\ items = ConcatPages(SubSeq(fetches, 1, Len(fetches) - 1))

\* The paginator returned after the request for a page p > 1 failed
StoppedOnFailedPage ==
    /\ pc = "paginated"
    /\ Len(fetches) > 1
    /\ fetches[Len(fetches)].resp = JNull

\* C7 as stated: after page p > 1 failed, the total returned is the
\* total_count reported by page p-1.
C7_TotalIsLastReportedTotal ==
    StoppedOnFailedPage =>
        total_count = fetches[Len(fetches) - 1].resp.v.total_count

\* C7 amended: after page p > 1 failed, the total returned is the number of
\* items accumulated.
C7_TotalIsAccumulatedCount ==
    StoppedOnFailedPage => total_count = Len(items)

\* Page 2 failed after page 1 reported more items than it delivered
C7_Witness ==
    /\ StoppedOnFailedPage
    /\ Len(items) = per_page
    /\ fetches[1].resp.v.total_count > per_page
    /\ total_count = per_page

-----------------------------------------------------------------------------
(* Properties of resume and of the progress file (checked under Spec) *)

\* What a from-scratch run over the items returns: the records of each item,
\* in input order
RECURSIVE FromScratchResults(_)
FromScratchResults(its) ==
    IF its = <<>> THEN <<>>
    ELSE FromScratchResults(SubSeq(its, 1, Len(its) - 1))
         \o ItemResults(its[Len(its)])

\* A progress document was loaded and it was written over the same input
ResumedOverSameInput ==
    /\ Truthy(loaded)
    /\ loaded.v.processed_count <= Len(items)
    /\ loaded.v.processed = SubSeq(items, 1, loaded.v.processed_count)

\* C1: a run resumed from a progress file over the same input returns the
\* result sequence of a from-scratch run over the full input.
C1_ResumeEqualsFromScratch ==
    (pc = "processed" /\ ResumedOverSameInput)
        => results = FromScratchResults(items)

\* The number of processed items of the progress document loaded, 0 if none
LoadedCount == IF Truthy(loaded) THEN loaded.v.processed_count ELSE 0

BatchesDone == pc = "processed" \/ (pc = "done" /\ progress_file # 0)

\* C2: a run that loaded a progress document with k processed items passes
\* through the filter exactly the items at indices k, k+1, ..., len(items)-1,
\* each once and in that order; a run that loaded none starts at index 0.
C2_ResumeProcessesSuffix ==
    /\ filtered = [n \in 1..Len(filtered) |-> LoadedCount + n - 1]
    /\ \A n \in 1..Len(filtered) : filtered[n] < Len(items)
    /\ BatchesDone => Len(filtered) = Len(items) - LoadedCount

\* A resumed run finished its batches having filtered only the second item
C2_Witness ==
    /\ pc = "processed"
    /\ Truthy(loaded)
    /\ LoadedCount = 1
    /\ Len(items) = 2
    /\ filtered = <<1>>

\* C3: after a run that completed normally and ran at least one batch, the
\* progress file it wrote no longer exists.
C3_CheckpointDeletedOnCompletion ==
    (pc = "done" /\ exit_code = 0 /\ progress_file # 0 /\ filtered # <<>>)
        => fs[progress_file] = Absent

-----------------------------------------------------------------------------
(* Properties of the filter pipeline (checked under SpecFilter) *)

\* Two logins are equal ignoring letter case
SameIgnoringCase(s, t) ==
    /\ Len(s) = Len(t)
    /\ \A k \in 1..Len(s) :
          \/ s[k] = t[k]
          \/ \E m \in 1..26 : {s[k], t[k]} = {Upper[m], LowerOf[m]}

HasLogin(pr) == IsDict(pr.user) /\ "login" \in DOMAIN pr.user.v

\* The PR numbers of the records produced so far
ResultNumbers ==
    {r.pr_number : r \in {(results \o batch_results)[k] :
                              k \in 1..Len(results \o batch_results)}}

\* C8: in the code-review report an item whose author login equals the
\* target username ignoring letter case contributes no result record.
C8_SelfAuthoredYieldsNothing ==
    args.report = "review" =>
        \A n \in 1..Len(filtered) :
            LET pr == items[filtered[n] + 1]
            IN (HasLogin(pr)
                /\ SameIgnoringCase(pr.user.v.login.v, args.username))
                  => pr.number \notin ResultNumbers

\* The item authored by Dika-Paper, which targets release/1.2 and carries a
\* comment of dika-paper, went through the filter and left nothing
C8_Witness ==
    /\ args.report = "review"
    /\ args.username = Chars_me
    /\ pc = "processed"
    /\ items = <<World[5].item>>
    /\ filtered = <<0>>
    /\ results = <<>>

\* The item reaches the target-branch predicate: it has a detail url and its
\* detail is a mapping whose base is a mapping with a string ref (and, in the
\* code-review report, it is not self-authored)
ReachesBranchTest(pr) ==
    LET d == World[pr.number].detail
    IN /\ "url" \in DOMAIN pr.pull_request.v
       /\ IsDict(d) /\ "base" \in DOMAIN d.v
       /\ IsDict(d.v.base) /\ "ref" \in DOMAIN d.v.base.v
       /\ IsStr(d.v.base.v.ref)
       /\ args.report = "review" =>
             ~(HasLogin(pr) /\ SameIgnoringCase(pr.user.v.login.v, args.username))

TargetRef(pr) == World[pr.number].detail.v.base.v.ref.v

IsAccepted(n) == \E m \in 1..Len(accepted) : accepted[m] = filtered[n]

StagingOrRelease(ref) == ref = Chars_staging \/ StartsWith(ref, Chars_release_)

\* C9 as stated: in both reports an item that reaches the target-branch
\* predicate is accepted exactly when its ref is "staging" or starts with
\* "release/".
C9_StagingOrReleaseInBothReports ==
    \A n \in 1..Len(filtered) :
        LET pr == items[filtered[n] + 1]
        IN ReachesBranchTest(pr) => (IsAccepted(n) <=> StagingOrRelease(TargetRef(pr)))

\* C9 amended: the code-review report accepts exactly the refs "staging" and
\* those starting with "release/"; the pull-request report accepts exactly
\* the refs starting with "release/" and rejects "staging"; both compare
\* case-sensitively.
C9_BranchPredicate ==
    \A n \in 1..Len(filtered) :
        LET pr == items[filtered[n] + 1]
        IN ReachesBranchTest(pr) =>
              (IsAccepted(n) <=>
                  IF args.report = "review"
                  THEN StagingOrRelease(TargetRef(pr))
                  ELSE StartsWith(TargetRef(pr), Chars_release_))

\* The pull-request report rejected an item that targets staging
C9_Witness ==
    /\ args.report = "pr"
    /\ pc = "processed"
    /\ items = <<World[2].item>>
    /\ filtered = <<0>>
    /\ accepted = <<>>

\* C10: the pull-request report accepts exactly the items whose target ref
\* starts with the configured --branch-prefix.
C10_ConfiguredPrefixDecides ==
    args.report = "pr" =>
        \A n \in 1..Len(filtered) :
            LET pr == items[filtered[n] + 1]
            IN ReachesBranchTest(pr) =>
                  (IsAccepted(n) <=> StartsWith(TargetRef(pr), args.branch_prefix))

-----------------------------------------------------------------------------
(* Failed detail fetches *)

\* The records accumulated so far, those of the open batch included
Accumulated == results \o batch_results
AccumulatedSet == {Accumulated[k] : k \in 1..Len(Accumulated)}

\* The item a record was made of: PR number or commit sha
RecordItem(r) ==
    IF args.report = "review" THEN r.pr_number
    ELSE IF args.report = "commit" THEN r.sha
    ELSE r.number

ItemKey(item) == IF args.report = "commit" THEN item.sha ELSE item.number

\* The detail request of the item is issued and answered with the failure value
DetailFails(item) ==
    IF args.report = "commit"
    THEN Truthy(item.url) /\ ~Truthy(CommitDetailOf(item))
    ELSE Truthy(Get(item.pull_request, "url", JNull)) /\ ~Truthy(DetailOf(item))

\* Every item from the start offset on has been passed through the filter
\* once the item loop is over
AllLaterItemsProcessed ==
    pc \in {"processed", "listed"} =>
        \A k \in start_index..(Len(items) - 1) :
            \E n \in 1..Len(filtered) : filtered[n] = k

\* An exception never leaves the item loop
NoFailureWhileProcessing == pc = "raised" => filtered = <<>>

-----------------------------------------------------------------------------
(* Checkpoint contents *)

\* The results-found counter and the stored result list of a document
FoundCounter(doc) ==
    IF args.report = "review" THEN Get(doc, "comments_found", -1)
    ELSE Get(doc, "release_prs_found", -1)

StoredResults(doc) ==
    IF args.report = "review" THEN Get(doc, "all_comments", <<>>)
    ELSE Get(doc, "release_prs", <<>>)

\* The counters of a document agree with its lists, and its processed list
\* is a prefix of the input
DocConsistent(doc) ==
    LET processed == Get(doc, "processed", <<>>)
    IN /\ Get(doc, "processed_count", -1) = Len(processed)
       /\ Len(processed) <= Len(repo)
       /\ processed = SubSeq(repo, 1, Len(processed))
       /\ FoundCounter(doc) = Len(StoredResults(doc))

\* The items the run has consumed in completed batches
ConsumedInBatches == start_index + Len(filtered) - j

\* C12: every checkpoint written has processed_count equal to the length of
\* its processed list, which is the prefix of the input consumed so far, and
\* a results-found counter equal to the length of the stored result list; the
\* checkpoint written after the last batch counts every input item.
C12_CheckpointCounts ==
    /\ \A t \in 1..MaxClock : IsDict(fs[t]) => DocConsistent(fs[t])
    /\ \A k \in 1..Len(saves) : DocConsistent(saves[k])
    /\ saves # <<>> =>
          Get(saves[Len(saves)], "processed_count", -1) = ConsumedInBatches
    /\ (BatchesDone /\ saves # <<>>) =>
          Get(saves[Len(saves)], "processed_count", -1) = Len(items)

\* A resumed run wrote the checkpoint of its only batch, the second item
C12_Witness ==
    /\ pc = "processed"
    /\ Truthy(loaded)
    /\ start_index = 1
    /\ Len(items) = 2
    /\ Len(saves) = 1
    /\ Get(fs[progress_file], "processed_count", -1) = 2

-----------------------------------------------------------------------------
(* Checkpoint writes *)

\* The processed count after k batches of a run from offset s
CountAfterBatches(k) == Min(start_index + k * args.batch_size, Len(items))

\* C13: a run over n items from offset s with batch size b processes
\* contiguous batches of b items, the last possibly shorter, and writes the
\* checkpoint once after each batch and never inside one: ceil((n - s) / b)
\* writes in all, one write when b exceeds n.
C13_OneWritePerBatch ==
    args.report \in {"review", "pr"} =>
        /\ Len(saves) = CeilDiv(Len(filtered) - j, args.batch_size)
        /\ \A k \in 1..Len(saves) :
              Get(saves[k], "processed_count", -1) = CountAfterBatches(k)
        /\ BatchesDone =>
              Len(saves) = CeilDiv(Len(items) - start_index, args.batch_size)

\* A batch size larger than the input: one batch, one write
C13_Witness ==
    /\ pc = "processed"
    /\ args.batch_size = 2
    /\ Len(items) = 1
    /\ start_index = 0
    /\ Len(saves) = 1

-----------------------------------------------------------------------------
(* The report step on its own: any accumulated result list *)

\* Result records with few keys and a second field telling equal keys apart
SortRecords(report) ==
    IF report = "review"
    THEN [pr_number : {1}, pr_author : {Chars_bob}, target_branch : {Chars_staging},
          comment_id : 1..2, created_at : 1..2]
    ELSE IF report = "commit"
    THEN [sha : 1..2, message : {Chars_fix}, author_date : 1..2,
          lines_added : {0}, lines_deleted : {0}, files_changed : {0}]
    ELSE [number : 1..2, target_branch : {Chars_release_, Chars_release_12}]

InitSort ==
    /\ args \in [report : {"review", "pr", "commit"}, username : {Chars_me},
                 batch_size : {1}, branch_prefix : {Chars_release_},
                 token : {Chars_token}, org : {Chars_org},
                 repository : {Chars_repo}, sprint : {"sprint-1"}]
    /\ repo = <<>>
    /\ now = 1
    /\ fs = [t \in 1..MaxClock |-> Absent]
    /\ pc = IF args.report = "commit" THEN "listed" ELSE "processed"
    /\ PagInit
    /\ items = <<>>
    /\ total_count = 0
    /\ progress_file = 1
    /\ processed_prs = <<>>
    /\ start_index = 0
    /\ results \in SeqsUpTo(SortRecords(args.report), MaxSortLen)
    /\ i = 0
    /\ j = 0
    /\ batch_results = <<>>
    /\ filtered = <<>>
    /\ accepted = <<>>
    /\ loaded = JNull
    /\ report_rows = <<>>
    /\ exit_code = -1
    /\ calls = <<>>
    /\ saves = <<>>
    /\ outputs = {}

NextSort ==
    \/ GenerateFinalReport
    \/ GenerateCommitListReport

SpecSort == InitSort /\ [][NextSort]_vars

\* The sort key of the report and its direction
SortKey ==
    IF args.report = "review" THEN "created_at"
    ELSE IF args.report = "commit" THEN "author_date"
    ELSE "number"

Descending == args.report = "pr"

\* The records of s whose key is v, in the order of s
WithKey(s, v) ==
    LET Test(x) == x[SortKey] = v
    IN SelectSeq(s, Test)

\* C14: the rows of each report are ordered by its key (created_at and
\* author_date ascending, PR number descending) and records with equal keys
\* keep the order they had in the accumulated result list, in both
\* directions.
C14_SortedAndStable ==
    (pc = "done" /\ results # <<>>) =>
        /\ Len(report_rows) = Len(results)
        /\ \A a, b \in 1..Len(report_rows) :
              a < b => IF Descending
                       THEN report_rows[a][SortKey] >= report_rows[b][SortKey]
                       ELSE report_rows[a][SortKey] <= report_rows[b][SortKey]
        /\ \A k \in 1..Len(results) :
              WithKey(report_rows, results[k][SortKey])
                  = WithKey(results, results[k][SortKey])

\* The descending report moved a record and kept two different records of
\* the same number in their accumulated order
C14_Witness ==
    /\ args.report = "pr"
    /\ pc = "done"
    /\ Len(results) = 3
    /\ results[1].number = 1
    /\ results[2].number = 2
    /\ results[3].number = 2
    /\ results[2] # results[3]
    /\ report_rows = <<results[2], results[3], results[1]>>

-----------------------------------------------------------------------------
(* Empty reports *)

\* The records the item yields in the report that runs
YieldOf(item) ==
    IF args.report = "commit" THEN CommitItem(item) ELSE ItemResults(item)

\* Items were fetched and none of them yields a result record
FetchedButNoneYields ==
    /\ items # <<>>
    /\ \A k \in 1..Len(items) : YieldOf(items[k]) = <<>>

\* C15: when at least one item was fetched and no item yields a result
\* record, the report step creates neither a CSV nor a JSON file and the
\* program exits with code 0.
C15_NoFilesForEmptyResult ==
    (pc = "done" /\ FetchedButNoneYields) =>
        /\ outputs = {}
        /\ report_rows = <<>>
        /\ exit_code = 0

\* The code-review run filtered both of its items, kept none and finished
C15_Witness ==
    /\ args.report = "review"
    /\ pc = "done"
    /\ Len(items) = 2
    /\ Len(filtered) = 2
    /\ FetchedButNoneYields
    /\ outputs = {}
    /\ exit_code = 0

-----------------------------------------------------------------------------
(* Configuration errors *)

\* The credential is missing, an identity setting is empty, or the sprint
\* name is not one of sprint_config
ConfigIncomplete ==
    \/ args.token = <<>>
    \/ args.org = <<>>
    \/ args.repository = <<>>
    \/ args.username = <<>>
    \/ args.sprint \notin sprint_config

\* C16: with a missing credential, an empty organization, repository or
\* username, or an unknown sprint name, main returns a non-zero exit code
\* before any request is issued, and writes no checkpoint and no report file.
C16_ConfigErrorsStopMain ==
    ConfigIncomplete =>
        /\ pc \in {"main", "rejected", "killed"}
        /\ pc = "rejected" => exit_code \notin {0, -1}
        /\ calls = <<>>
        /\ fetches = <<>>
        /\ progress_file = 0
        /\ saves = <<>>
        /\ \A t \in 1..MaxClock : fs[t] = Absent
        /\ outputs = {}
        /\ report_rows = <<>>

\* commit.py was started with an unknown sprint name and returned 1
C16_Witness ==
    /\ args.report = "commit"
    /\ args.sprint = "sprint-0"
    /\ pc = "rejected"
    /\ exit_code = 1
    /\ calls = <<>>

-----------------------------------------------------------------------------
(* Records per item *)

\* The step passes one item through the filter
FiltersOneItem == Len(filtered') = Len(filtered) + 1

\* The item that step handles, and the number of records it appends
ItemInHand == Batch[j + 1]
RecordsAppended == Len(batch_results') - Len(batch_results)

\* The comments of the target user on the item, letter case ignored
CommentsOfUser(pr) ==
    LET comments_data == CommentsOf(pr.number)
    IN IF ~IsList(comments_data) THEN {}
       ELSE {k \in 1..Len(comments_data.v) :
                LET c == comments_data.v[k]
                IN /\ IsDict(c)
                   /\ "user" \in DOMAIN c.v
                   /\ IsDict(c.v.user)
                   /\ "login" \in DOMAIN c.v.user.v
                   /\ SameIgnoringCase(c.v.user.v.login.v, args.username)}

\* C17: every item a batch processor handles is dropped or turned into
\* exactly one result record: 0 or 1 records are appended for it, and 1 for
\* each item that passes every predicate.
C17_AtMostOneRecordPerItem ==
    [][FiltersOneItem =>
          /\ RecordsAppended \in {0, 1}
          /\ ItemAccepted(ItemInHand) => RecordsAppended = 1]_vars

\* C17 amended: pr.py appends one record for an item that passes every
\* predicate and none otherwise; review.py appends, for an item that passes
\* every predicate, one record per comment of the target user on it (none,
\* one or several), and none for a dropped item.
C17_RecordsPerItem ==
    [][FiltersOneItem =>
          RecordsAppended =
              IF ~ItemAccepted(ItemInHand) THEN 0
              ELSE IF args.report = "review"
                   THEN Cardinality(CommentsOfUser(ItemInHand))
                   ELSE 1]_vars

\* The code-review run appended two records for its only item
C17_Witness ==
    /\ args.report = "review"
    /\ items = <<World[1].item>>
    /\ filtered = <<0>>
    /\ accepted = <<0>>
    /\ Len(Accumulated) = 2

-----------------------------------------------------------------------------
(* A run over more than one page *)

\* A repository of one full page and MaxTail more items: the first is kept
\* by every report, the others are dropped after their detail request
LongRepo(report) ==
    [k \in 1..(per_page + MaxTail) |->
        IF report = "commit" THEN CommitWorld[IF k = 1 THEN 1 ELSE 3].item
        ELSE World[IF k = 1 THEN 1 ELSE 3].item]

InitLong ==
    /\ args \in [report : {"review", "pr", "commit"}, username : {Chars_me},
                 batch_size : {per_page}, branch_prefix : {Chars_release_},
                 token : {Chars_token}, org : {Chars_org},
                 repository : {Chars_repo}, sprint : {"sprint-1"}]
    /\ repo = LongRepo(args.report)
    /\ now = 1
    /\ fs = [t \in 1..MaxClock |-> Absent]
    /\ pc = "main"
    /\ RunInit

NextLong ==
    \/ MainStart
    \/ FetchPageMain
    \/ PaginatorReturn
    \/ FetchCommitsPageMain
    \/ AfterFetch
    \/ LoadProgress
    \/ ProcessItem
    \/ SaveOpen
    \/ SaveDump
    \/ GenerateFinalReport
    \/ ProcessCommit
    \/ GenerateCommitListReport

SpecLong == InitLong /\ [][NextLong]_vars

\* C18: in every run all page requests come before the first detail or
\* comments request; no page is requested once item processing has begun.
C18_PagesBeforeItems ==
    \A a, b \in 1..Len(calls) :
        (a < b /\ calls[b] = "page") => calls[a] = "page"

\* The code-review run fetched two pages, then filtered every item
C18_Witness ==
    /\ args.report = "review"
    /\ pc = "done"
    /\ Len(fetches) = 2
    /\ Len(items) = per_page + MaxTail
    /\ Len(calls) >= 4
    /\ SubSeq(calls, 1, 4) = <<"page", "page", "detail", "comments">>
    /\ Len(filtered) = Len(items)

-----------------------------------------------------------------------------
(* Interrupted runs and the checkpoint on disk *)

\* C19: wherever a batch-processing run is interrupted, between items,
\* between batches or while save_progress overwrites the file, every
\* checkpoint on disk is absent or a complete, loadable snapshot taken at a
\* batch boundary.
C19_CheckpointLoadableAfterInterrupt ==
    pc = "killed" =>
        \A t \in 1..MaxClock :
            \/ fs[t] = Absent
            \/ IsDict(fs[t]) /\ DocConsistent(fs[t])

\* The entry of the batch processor has run to the first loop test or to an
\* exception
LoadStep == pc = "load" /\ pc' \notin {"load", "killed"}

\* The run goes on from the offset stored under its progress-file name
Resumes ==
    /\ pc' \in {"item", "processed"}
    /\ IsDict(fs[now])
    /\ loaded' = fs[now]
    /\ start_index' = Len(Get(fs[now], "processed", <<>>))

\* The run goes on from index 0
StartsAfresh ==
    /\ pc' \in {"item", "processed"}
    /\ loaded' = JNull
    /\ start_index' = 0
    /\ i' = 0

\* C20: a batch-processing run resumes if and only if a file exists under
\* the checkpoint name it computes from its start time; otherwise it starts
\* at index 0; a run never touches a checkpoint file of another name.
C20_ResumesIffFileExists ==
    [][/\ LoadStep => IF fs[now] # Absent THEN Resumes ELSE StartsAfresh
       /\ \A t \in 1..MaxClock : fs'[t] # fs[t] => t = progress_file]_vars

-----------------------------------------------------------------------------
(* Requests per item *)

\* The requests issued by the step that handles one item
ItemSegment == SubSeq(calls', Len(calls) + 1, Len(calls'))

IsSelfAuthored(pr) ==
    HasLogin(pr) /\ SameIgnoringCase(pr.user.v.login.v, args.username)

HasDetailUrl(pr) ==
    /\ IsDict(pr.pull_request)
    /\ "url" \in DOMAIN pr.pull_request.v
    /\ Truthy(pr.pull_request.v.url)

\* The item fails a predicate of the report that runs
IsRejected(pr) ==
    \/ ~ReachesBranchTest(pr)
    \/ IF args.report = "review"
       THEN ~StagingOrRelease(TargetRef(pr))
       ELSE ~StartsWith(TargetRef(pr), Chars_release_)

\* C21: the predicate chain short-circuits.  In the code-review report a
\* self-authored item causes no request and a rejected item no comments
\* request; in the pull-request report a rejected item causes at most its
\* one detail request; an item without a detail url causes none.
C21_ShortCircuit ==
    [][FiltersOneItem =>
          LET pr == ItemInHand
              seg == ItemSegment
          IN /\ ~HasDetailUrl(pr) => seg = <<>>
             /\ IF args.report = "review"
                THEN /\ IsSelfAuthored(pr) => seg = <<>>
                     /\ IsRejected(pr) =>
                           \A k \in 1..Len(seg) : seg[k] # "comments"
                ELSE IsRejected(pr) =>
                        /\ Len(seg) <= 1
                        /\ \A k \in 1..Len(seg) : seg[k] = "detail"]_vars

\* The code-review run fetched the detail of an item that targets main and
\* stopped there
C21_Witness ==
    /\ args.report = "review"
    /\ items = <<World[3].item>>
    /\ filtered = <<0>>
    /\ accepted = <<>>
    /\ calls = <<"detail">>

-----------------------------------------------------------------------------
(* Mis-shaped detail responses *)

\* The detail request of the item is issued
DetailFetched(pr) ==
    /\ HasDetailUrl(pr)
    /\ args.report = "review" => ~IsSelfAuthored(pr)

\* The detail response is present but is not a mapping, or its base is not
\* a mapping, or its ref is not a string
MisShapedDetail(pr) ==
    LET d == World[pr.number].detail
    IN /\ Truthy(d)
       /\ \/ ~IsDict(d)
          \/ "base" \notin DOMAIN d.v
          \/ ~IsDict(d.v.base)
          \/ "ref" \in DOMAIN d.v.base.v /\ ~IsStr(d.v.base.v.ref)

\* C22: in the code-review and pull-request reports an item whose detail
\* response is present but mis-shaped is handled like one whose detail fetch
\* failed: it yields no result record, it is counted in the processed
\* sequence of its batch, and processing goes on without raising.
C22_MisShapedDetailSkipped ==
    /\ \A n \in 1..Len(filtered) :
          LET pr == items[filtered[n] + 1]
          IN (DetailFetched(pr) /\ MisShapedDetail(pr)) =>
                /\ \A r \in AccumulatedSet : RecordItem(r) # pr.number
                /\ ~IsAccepted(n)
                /\ BatchesDone =>
                      /\ Len(processed_prs) = Len(items)
                      /\ processed_prs[filtered[n] + 1] = pr
    /\ AllLaterItemsProcessed
    /\ NoFailureWhileProcessing

\* The pull-request run met a detail response that is a list, wrote the
\* item into its checkpoint and kept no record
C22_Witness ==
    /\ args.report = "pr"
    /\ pc = "processed"
    /\ items = <<World[8].item>>
    /\ filtered = <<0>>
    /\ processed_prs = items
    /\ Len(saves) = 1
    /\ results = <<>>

-----------------------------------------------------------------------------
(* Number of requests *)

\* The requests of the processing phase in a log of requests
ProcessingCalls(log) ==
    LET NotPage(c) == c # "page"
    IN SelectSeq(log, NotPage)

\* The requests one item may cause in the report that runs
AllowedSegments ==
    IF args.report = "review"
    THEN {<<>>, <<"detail">>, <<"detail", "comments">>}
    ELSE {<<>>, <<"detail">>}

CallsPerItem == IF args.report = "review" THEN 2 ELSE 1

\* C23: each item causes at most one detail request and, in the code-review
\* report only, at most one comments request after it; nothing is retried,
\* so the processing phase issues at most len(items) requests in the
\* pull-request and commit reports and 2 * len(items) in the code-review
\* report.
C23_RequestsPerItem ==
    [][/\ FiltersOneItem => ItemSegment \in AllowedSegments
       /\ ~FiltersOneItem =>
             Len(ProcessingCalls(calls')) <= Len(ProcessingCalls(calls))
       /\ Len(ProcessingCalls(calls')) <= CallsPerItem * Len(items')]_vars

\* The code-review run fetched detail and comments of each of its two items
C23_Witness ==
    /\ args.report = "review"
    /\ pc = "done"
    /\ Len(items) = 2
    /\ calls = <<"page", "detail", "comments", "detail", "comments">>

-----------------------------------------------------------------------------
(* Comments kept by the code-review report *)

\* The comments returned for the item, none if the response is not a list
FetchedComments(pr) ==
    LET comments_data == CommentsOf(pr.number)
    IN IF IsList(comments_data) THEN comments_data.v ELSE <<>>

\* The comment is by the target user, letter case ignored
ByTargetUser(c) ==
    /\ IsDict(c)
    /\ "user" \in DOMAIN c.v
    /\ IsDict(c.v.user)
    /\ "login" \in DOMAIN c.v.user.v
    /\ SameIgnoringCase(c.v.user.v.login.v, args.username)

\* The records the claim expects for an item that passed the branch test
ExpectedRecords(pr) ==
    LET kept == SelectSeq(FetchedComments(pr), ByTargetUser)
    IN [k \in 1..Len(kept) |->
           [pr_number |-> pr.number,
            pr_author |-> IF HasLogin(pr) THEN pr.user.v.login.v ELSE <<>>,
            target_branch |-> TargetRef(pr),
            comment_id |-> kept[k].v.id,
            created_at |-> kept[k].v.created_at]]

\* The document the step writes, if it writes one
WritesCheckpoint == Len(saves') = Len(saves) + 1
WrittenDoc == saves'[Len(saves')]

\* C24: in the code-review report the records appended for an item that
\* passes the branch predicate are exactly its fetched comments by the target
\* user, letter case ignored, in the order returned; an item without such a
\* comment, or whose comments request fails or returns no list, appends
\* nothing and is still in the processed list and count of its batch's
\* checkpoint.
C24_RecordsAreUserComments ==
    [][args.report = "review" =>
          /\ (FiltersOneItem /\ ~IsRejected(ItemInHand)) =>
                batch_results' = batch_results \o ExpectedRecords(ItemInHand)
          /\ WritesCheckpoint =>
                /\ Get(WrittenDoc, "processed", <<>>)
                      = SubSeq(items, 1, i + Len(Batch))
                /\ Get(WrittenDoc, "processed_count", -1) = i + Len(Batch)]_vars

\* The run kept the two comments of the user, spelled in two ways, in the
\* order returned and left out the comment of bob between them
C24_Witness ==
    /\ args.report = "review"
    /\ args.username = Chars_me
    /\ items = <<World[1].item>>
    /\ pc = "processed"
    /\ Len(results) = 2
    /\ results[1].comment_id = 11
    /\ results[2].comment_id = 13
    /\ Get(fs[progress_file], "processed_count", -1) = 1

-----------------------------------------------------------------------------
(* Inter-page delays *)

\* The paginator of the run has returned
PaginatorLeft == pc \notin {"main", "fetch", "fetch_commits"}

\* C25: in every paginator exactly one delay lies between two consecutive
\* page requests, and no delay follows the page on which the loop stops.
C25_OneDelayBetweenPages ==
    /\ \A k \in 1..Len(timeline) :
          timeline[k] = IF k % 2 = 1 THEN "fetch" ELSE "sleep"
    /\ Len(fetches) > 0 =>
          Len(timeline) = IF PaginatorLeft THEN 2 * Len(fetches) - 1
                          ELSE 2 * Len(fetches)

\* The commit paginator fetched two pages with one delay between them
C25_Witness ==
    /\ args.report = "commit"
    /\ pc = "paginated"
    /\ Len(items) = per_page + MaxTail
    /\ timeline = <<"fetch", "sleep", "fetch">>

-----------------------------------------------------------------------------
(* The report step only reorders *)

\* How often record r occurs in s
Count(s, r) ==
    LET Is(x) == x = r
    IN Len(SelectSeq(s, Is))

Records(s) == {s[k] : k \in 1..Len(s)}

\* C26: the rows handed to the report writers are a permutation of the
\* accumulated result list, every record with its multiplicity, so records
\* repeated because an item came twice in the input all reach the output.
C26_ReportIsPermutation ==
    (pc = "done" /\ results # <<>>) =>
        \A r \in Records(results) \cup Records(report_rows) :
            Count(report_rows, r) = Count(results, r)

\* A record that was accumulated twice is in the code-review report twice
C26_Witness ==
    /\ args.report = "review"
    /\ pc = "done"
    /\ Len(results) = 3
    /\ results[1] = results[3]
    /\ results[1] # results[2]
    /\ Len(report_rows) = 3
    /\ Count(report_rows, results[1]) = 2

-----------------------------------------------------------------------------
(* Growth of the stored lists *)

IsPrefix(a, b) == Len(a) <= Len(b) /\ SubSeq(b, 1, Len(a)) = a

\* Document d2 extends document d1 in its result list and its processed list
Extends(d1, d2) ==
    /\ IsPrefix(StoredResults(d1), StoredResults(d2))
    /\ IsPrefix(Get(d1, "processed", <<>>), Get(d2, "processed", <<>>))

\* C27: within one run the stored result list and the processed list only
\* grow by appending from one checkpoint written to the next, and in a
\* resumed run the first checkpoint written extends the lists of the
\* checkpoint that was loaded.
C27_StoredListsOnlyGrow ==
    /\ \A k \in 1..(Len(saves) - 1) : Extends(saves[k], saves[k + 1])
    /\ (Truthy(loaded) /\ saves # <<>>) => Extends(loaded, saves[1])

-----------------------------------------------------------------------------
(* Independence of the batch size *)

\* A batch processor that loaded no checkpoint has left its loop
FromScratchDone ==
    /\ args.report \in {"review", "pr"}
    /\ BatchesDone
    /\ loaded = JNull

\* C28: the result list a from-scratch run returns is the concatenation of
\* the records of its items in input order, whatever the batch size, and
\* every item is passed through the filter exactly once.
C28_BatchSizeIrrelevant ==
    FromScratchDone =>
        /\ results = FromScratchResults(items)
        /\ filtered = [n \in 1..Len(items) |-> n - 1]

\* Two batches of one item gave the records of both items in input order
C28_Witness ==
    /\ args.report = "review"
    /\ args.batch_size = 1
    /\ pc = "processed"
    /\ loaded = JNull
    /\ items = <<World[2].item, World[1].item>>
    /\ Len(saves) = 2
    /\ Len(results) = 3
    /\ results[1].pr_number = 2

====
